---- MODULE Spec2Model ----
(***************************************************************************)
(* Windowed AUROC analysis of rnavigate (rnavigate/analysis/auroc.py).     *)
(*                                                                         *)
(* WindowedAUROC.__init__ slides a window of 2*pad+1 nucleotides over the  *)
(* Norm_profile column of a sample, scores how well the reactivities in    *)
(* the window predict "unpaired" (ct == 0) by the area under the ROC curve *)
(* and stores the median of the scores.                                    *)
(*                                                                         *)
(* Numbers.  Reactivities are floats in the program; a ROC curve reads     *)
(* only their order and their equality, so a reactivity is modelled by an  *)
(* integer level (0.1 is level 1, 0.9 is level 9) and np.nan by the        *)
(* value NaNLevel, which is no level.  A score is an exact fraction        *)
(* <<numerator, denominator>> in lowest terms; the float nan is <<0, 0>>.   *)
(* Python sequences are 0-indexed, TLA+ sequences 1-indexed: At(s, k) is   *)
(* s[k] of the program.                                                    *)
(***************************************************************************)
EXTENDS Integers, Sequences, FiniteSets

VARIABLES
    sample,        \* the rnav.Sample handed to the constructor
    pad,           \* the pad argument
    attrs,         \* names of the attributes set on self so far
    window,        \* self.window
    nt_length,     \* self.nt_length
    auroc,         \* self.auroc
    auroc_median,  \* self.auroc_median
    i,             \* the loop variable of __init__
    pc,            \* position in __init__: "start", "loop", "done", "raised"
    err,           \* the exception that left __init__, "none" if none
    run,           \* number of constructions started on this sample
    prev_profile,  \* Norm_profile of the previous construction
    prev_auroc,    \* auroc of the previous construction
    pending,       \* centers still to evaluate when the loop runs in any order
    plot,          \* what the last plot_auroc call drew, <<>> before any
    table,         \* Profile.data: the columns of the data table, by name
    call,          \* the arguments of the last call, or of the one to be made
    pstatus,       \* outcome of that call: "idle", "returned" or the exception
    returned,      \* the value that call returned, <<>> for None
    pdb            \* the fields of the PDB object, <<>> where there is none

vars == <<sample, pad, attrs, window, nt_length, auroc, auroc_median, i, pc,
          err, run, prev_profile, prev_auroc, pending, plot, table, call,
          pstatus, returned, pdb>>

\* the state of the Profile object
profileVars == <<table, call, pstatus, returned>>

----------------------------------------------------------------------------
(* Bounds of the model *)

MaxN == 24
MaxPad == 11
MaxLevel == 3
RerunExtra == 2
MaxRegionStart == 2
MaxRows == 4
MaxValue == 2
MaxWindow == 3
MaxMinimumPoints == 2
MaxInjected == 2
MaxLength == 2
MaxColumns == 4
MaxGap == 2

(* Program constants *)

MinSupport == 10
NaNLevel == 0

----------------------------------------------------------------------------
(* Exact fractions *)

NaN == <<0, 0>>

Abs(x) == IF x < 0 THEN -x ELSE x

RECURSIVE Gcd(_, _)
Gcd(a, b) == IF b = 0 THEN a ELSE Gcd(b, a % b)

\* n/d in lowest terms, d > 0
Frac(n, d) == LET g == Gcd(Abs(n), d) IN <<n \div g, d \div g>>

IsNaN(q) == q[2] = 0

FracLess(p, q) == p[1] * q[2] < q[1] * p[2]

FracMean(p, q) == Frac(p[1] * q[2] + q[1] * p[2], 2 * p[2] * q[2])

----------------------------------------------------------------------------
(* Python and numpy primitives *)

Min(a, b) == IF a < b THEN a ELSE b
Max(a, b) == IF a > b THEN a ELSE b

At(s, k) == s[k + 1]

\* the bound of a slice: a negative bound counts from the end, and every
\* bound is clamped to the sequence
SliceBound(b, len) == IF b < 0 THEN Max(b + len, 0) ELSE Min(b, len)

\* s[start:stop]
PySlice(s, start, stop) ==
    LET lo == SliceBound(start, Len(s))
        hi == SliceBound(stop, Len(s))
    IN  IF lo >= hi THEN <<>> ELSE SubSeq(s, lo + 1, hi)

\* range(start, stop)
PyRange(start, stop) == start .. (stop - 1)

\* np.isnan
isnan(x) == x = NaNLevel

\* np.full(n, np.nan)
full(n) == [k \in 1..n |-> NaN]

\* the indices a boolean mask keeps, ascending
RECURSIVE Kept(_, _)
Kept(mask, k) ==
    IF k > Len(mask) THEN <<>>
    ELSE IF mask[k] THEN <<k>> \o Kept(mask, k + 1)
    ELSE Kept(mask, k + 1)

\* a[mask]
BoolIndex(a, mask) == LET ks == Kept(mask, 1) IN [n \in 1..Len(ks) |-> a[ks[n]]]

\* sum of a boolean array
Count(b) == Cardinality({k \in 1..Len(b) : b[k]})

----------------------------------------------------------------------------
(* Arithmetic of scores; nan propagates as in floating point *)

FracAdd(p, q) ==
    IF IsNaN(p) \/ IsNaN(q) THEN NaN
    ELSE Frac(p[1] * q[2] + q[1] * p[2], p[2] * q[2])

FracSub(p, q) ==
    IF IsNaN(p) \/ IsNaN(q) THEN NaN
    ELSE Frac(p[1] * q[2] - q[1] * p[2], p[2] * q[2])

FracMul(p, q) ==
    IF IsNaN(p) \/ IsNaN(q) THEN NaN
    ELSE Frac(p[1] * q[1], p[2] * q[2])

\* n / d of two counts; 0 / 0 is nan
Rate(n, d) == IF d = 0 THEN NaN ELSE Frac(n, d)

Half == <<1, 2>>

----------------------------------------------------------------------------
(* sklearn.metrics.roc_curve and sklearn.metrics.auc, as called on lines   *)
(* 75 and 76.  y is the boolean ground truth (TRUE is the positive class), *)
(* scores the classification scores.                                       *)

\* the elements of a finite set of integers, largest first
RECURSIVE Descending(_)
Descending(S) ==
    IF S = {} THEN <<>>
    ELSE LET m == CHOOSE x \in S : \A z \in S : z <= x
         IN  <<m>> \o Descending(S \ {m})

\* the distinct scores, largest first: the thresholds swept
Thresholds(scores) == Descending({scores[k] : k \in 1..Len(scores)})

\* the variant of TruePositives that counts the positives above t only
TruePositivesStrict(y, scores, t) ==
    Cardinality({k \in 1..Len(scores) : y[k] /\ scores[k] > t})

\* positives scored at or above threshold t
TruePositives(y, scores, t) ==
    Cardinality({k \in 1..Len(scores) : y[k] /\ scores[k] >= t})

\* negatives scored at or above threshold t
FalsePositives(y, scores, t) ==
    Cardinality({k \in 1..Len(scores) : ~y[k] /\ scores[k] >= t})

\* drop_intermediate: of more than two points, an inner point is kept only
\* where the curve bends (a second difference of fps or of tps is not 0)
OptimalIdxs(fps, tps) ==
    IF Len(fps) <= 2 THEN [k \in 1..Len(fps) |-> TRUE]
    ELSE [k \in 1..Len(fps) |->
            \/ k = 1
            \/ k = Len(fps)
            \/ fps[k + 1] - 2 * fps[k] + fps[k - 1] # 0
            \/ tps[k + 1] - 2 * tps[k] + tps[k - 1] # 0]

\* roc_curve(y, scores): <<fpr, tpr>>, each starting at 0
roc_curve(y, scores) ==
    LET ts   == Thresholds(scores)
        fps0 == [k \in 1..Len(ts) |-> FalsePositives(y, scores, ts[k])]
        tps0 == [k \in 1..Len(ts) |-> TruePositives(y, scores, ts[k])]
        keep == OptimalIdxs(fps0, tps0)
        fps  == <<0>> \o BoolIndex(fps0, keep)
        tps  == <<0>> \o BoolIndex(tps0, keep)
        fpr  == [k \in 1..Len(fps) |-> Rate(fps[k], fps[Len(fps)])]
        tpr  == [k \in 1..Len(tps) |-> Rate(tps[k], tps[Len(tps)])]
    IN  <<fpr, tpr>>

\* the trapezoids under the points (x[1], y[1]) .. (x[k], y[k])
RECURSIVE Trapz(_, _, _)
Trapz(x, y, k) ==
    IF k <= 1 THEN <<0, 1>>
    ELSE FracAdd(Trapz(x, y, k - 1),
                 FracMul(FracSub(x[k], x[k - 1]),
                         FracMul(Half, FracAdd(y[k], y[k - 1]))))

\* the variant of auc that leaves out the factor 1/2 of the trapezoids
RECURSIVE Parallelograms(_, _, _)
Parallelograms(x, y, k) ==
    IF k <= 1 THEN <<0, 1>>
    ELSE FracAdd(Parallelograms(x, y, k - 1),
                 FracMul(FracSub(x[k], x[k - 1]), FracAdd(y[k], y[k - 1])))

aucNoHalf(x, y) == Parallelograms(x, y, Len(x))

\* the variant of auc that sums left rectangles, not trapezoids
RECURSIVE Rectangles(_, _, _)
Rectangles(x, y, k) ==
    IF k <= 1 THEN <<0, 1>>
    ELSE FracAdd(Rectangles(x, y, k - 1),
                 FracMul(FracSub(x[k], x[k - 1]), y[k - 1]))

aucRectangles(x, y) == Rectangles(x, y, Len(x))

\* auc(x, y)
auc(x, y) == Trapz(x, y, Len(x))

----------------------------------------------------------------------------
(* numpy.nanmedian, as called on line 78 *)

\* the entries of a that are not nan, in array order
Defined(a) == BoolIndex(a, [k \in 1..Len(a) |-> ~IsNaN(a[k])])

\* position of a smallest entry of a non-empty sequence of scores
ArgMin(a) ==
    CHOOSE k \in 1..Len(a) : \A m \in 1..Len(a) : ~FracLess(a[m], a[k])

Remove(a, k) == SubSeq(a, 1, k - 1) \o SubSeq(a, k + 1, Len(a))

RECURSIVE Sorted(_)
Sorted(a) ==
    IF a = <<>> THEN <<>>
    ELSE LET k == ArgMin(a) IN <<a[k]>> \o Sorted(Remove(a, k))

\* the sum of a sequence of scores
RECURSIVE FracSum(_)
FracSum(a) ==
    IF a = <<>> THEN <<0, 1>> ELSE FracAdd(a[1], FracSum(Tail(a)))

\* the variant of nanmedian that is np.nanmean
nanmedianMean(a) ==
    LET d == Defined(a)
    IN  IF d = <<>> THEN NaN ELSE FracMul(FracSum(d), <<1, Len(d)>>)

\* the variant of nanmedian that reads nan as 0: np.median(np.nan_to_num(a))
nanmedianZeroFilled(a) ==
    LET s == Sorted([k \in 1..Len(a) |-> IF IsNaN(a[k]) THEN <<0, 1>> ELSE a[k]])
        n == Len(s)
    IN  IF n = 0 THEN NaN
        ELSE IF n % 2 = 1 THEN s[(n + 1) \div 2]
        ELSE FracMean(s[n \div 2], s[n \div 2 + 1])

\* the median of the entries that are not nan; nan (with a RuntimeWarning,
\* no exception) when there is none
nanmedian(a) ==
    LET s == Sorted(Defined(a))
        n == Len(s)
    IN  IF n = 0 THEN NaN
        ELSE IF n % 2 = 1 THEN s[(n + 1) \div 2]
        ELSE FracMean(s[n \div 2], s[n \div 2 + 1])

----------------------------------------------------------------------------
(* WindowedAUROC.__init__, lines 31-81 *)

\* profile = sample.data["profile"].data["Norm_profile"].values
profile == sample.Norm_profile

\* ct = sample.data["ct"].ct
ct == sample.ct

\* line 47: the data the sample must hold
Required == {"profile", "ct"}

\* line 53: self.window
Window(p) == p * 2 + 1

\* the variant of InitialAuroc that holds one entry per window that fits
InitialAurocWindowsOnly(prof) == full(Max(Len(prof) - 2 * pad, 0))

\* line 61: np.full(len(profile), np.nan)
InitialAuroc(prof) == full(Len(prof))

\* the variant of Centers that runs one center too far
CentersPastEnd(n, p) == PyRange(p, n - p + 1)

\* line 62: range(pad, len(profile)-pad), the centers visited
Centers(n, p) == PyRange(p, n - p)

\* the variant of WindowOf that leaves out the last position
WindowOfHalfOpen(a, p, c) == PySlice(a, c - p, c + p)

\* the variant of WindowOf that reads one position more on the right
WindowOfWide(a, p, c) == PySlice(a, c - p, c + p + 2)

\* lines 64-65: a[i-pad:i+pad+1]
WindowOf(a, p, c) == PySlice(a, c - p, c + p + 1)

\* the variant of Valid that drops the whole window when the reactivity
\* in its middle is missing
ValidCenterRequired(win_profile) ==
    [k \in 1..Len(win_profile) |->
        /\ ~isnan(win_profile[(Len(win_profile) + 1) \div 2])
        /\ ~isnan(win_profile[k])]

\* line 67: valid = ~np.isnan(win_profile)
Valid(win_profile) == [k \in 1..Len(win_profile) |-> ~isnan(win_profile[k])]

\* the variant of Classification that does not drop the masked positions
ClassificationUnmasked(win_ct, valid) == [k \in 1..Len(win_ct) |-> win_ct[k] = 0]

\* the variant of Classification whose positive class is "paired"
ClassificationPairedPositive(win_ct, valid) ==
    LET kept == BoolIndex(win_ct, valid) IN [k \in 1..Len(kept) |-> kept[k] # 0]

\* line 69: y = win_ct[valid] == 0
Classification(win_ct, valid) ==
    LET kept == BoolIndex(win_ct, valid) IN [k \in 1..Len(kept) |-> kept[k] = 0]

\* line 70: scores = win_profile[valid]
Scores(win_profile, valid) == BoolIndex(win_profile, valid)

Not(b) == [k \in 1..Len(b) |-> ~b[k]]

\* the variant of Skipped that also skips a class of exactly MinSupport
SkippedOffByOne(y) == (Count(y) <= MinSupport) \/ (Count(Not(y)) <= MinSupport)

\* the variant of Skipped that counts the unpaired positions only
SkippedUnpairedOnly(y) == Count(y) < MinSupport

\* the variant of Skipped with the comparisons reversed
SkippedAboveSupport(y) == (Count(y) > MinSupport) \/ (Count(Not(y)) > MinSupport)

\* line 72: the window is skipped
Skipped(y) == (Count(y) < MinSupport) \/ (Count(Not(y)) < MinSupport)

\* the variant of WindowScore that hands the two rates to auc in the
\* other order
WindowScoreSwapped(y, scores) ==
    LET curve == roc_curve(y, scores) IN auc(curve[2], curve[1])

\* lines 75-76: tpr, fpr, _ = roc_curve(y, scores); auc(tpr, fpr).  The
\* names are swapped in the source: the first array is the false positive
\* rate and is the x of auc, the second the true positive rate.
WindowScore(y, scores) ==
    LET curve == roc_curve(y, scores) IN auc(curve[1], curve[2])

\* the variant of Slot that stores every score at the first center
SlotFirstCenter(c, len) == pad

\* the 0-based slot a[c] names: a negative index counts from the end
Slot(c, len) == IF c < 0 THEN c + len ELSE c

\* the variant of Construct that replaces the missing reactivities of the
\* sample by the lowest level in place
ConstructZeroFill ==
    /\ pc = "start"
    /\ run' = run + 1
    /\ IF ~(Required \subseteq sample.keys)
       THEN /\ pc' = "raised"
            /\ err' = "AssertionError"
            /\ UNCHANGED <<sample, attrs, window, nt_length, auroc, i>>
       ELSE /\ sample' = [sample EXCEPT !.Norm_profile =
                            [k \in 1..Len(profile) |->
                                IF isnan(profile[k]) THEN 1 ELSE profile[k]]]
            /\ attrs' = {"sample", "sequence", "window", "nt_length", "auroc"}
            /\ window' = Window(pad)
            /\ nt_length' = sample.length
            /\ auroc' = InitialAuroc(profile)
            /\ i' = pad
            /\ pc' = "loop"
            /\ err' = "none"
    /\ UNCHANGED <<pad, auroc_median, prev_profile, prev_auroc>>
    /\ UNCHANGED <<pending, plot, profileVars, pdb>>

\* the variant of Construct that stores the sample on self before it
\* looks for the data
ConstructAssignFirst ==
    /\ pc = "start"
    /\ run' = run + 1
    /\ IF ~(Required \subseteq sample.keys)
       THEN /\ pc' = "raised"
            /\ err' = "AssertionError"
            /\ attrs' = {"sample"}
            /\ UNCHANGED <<window, nt_length, auroc, i>>
       ELSE /\ attrs' = {"sample", "sequence", "window", "nt_length", "auroc"}
            /\ window' = Window(pad)
            /\ nt_length' = sample.length
            /\ auroc' = InitialAuroc(profile)
            /\ i' = pad
            /\ pc' = "loop"
            /\ err' = "none"
    /\ UNCHANGED <<sample, pad, auroc_median, prev_profile, prev_auroc>>
    /\ UNCHANGED <<pending, plot, profileVars, pdb>>

\* lines 45-61
Construct ==
    /\ pc = "start"
    /\ run' = run + 1
    /\ IF ~(Required \subseteq sample.keys)
       THEN /\ pc' = "raised"
            /\ err' = "AssertionError"
            /\ UNCHANGED <<attrs, window, nt_length, auroc, i>>
       ELSE /\ attrs' = {"sample", "sequence", "window", "nt_length", "auroc"}
            /\ window' = Window(pad)
            /\ nt_length' = sample.length
            /\ auroc' = InitialAuroc(profile)
            /\ i' = pad
            /\ pc' = "loop"
            /\ err' = "none"
    /\ UNCHANGED <<sample, pad, auroc_median, prev_profile, prev_auroc>>
    /\ UNCHANGED <<pending, plot, profileVars, pdb>>

\* lines 62-76: one iteration of the loop
WindowStep ==
    /\ pc = "loop"
    /\ i \in Centers(Len(profile), pad)
    /\ LET win_profile == WindowOf(profile, pad, i)
           win_ct      == WindowOf(ct, pad, i)
           valid       == Valid(win_profile)
           y           == Classification(win_ct, valid)
           scores      == Scores(win_profile, valid)
           slot        == Slot(i, Len(auroc))
       IN  IF Len(win_ct) # Len(valid)
           THEN \* a boolean index of another length than the array
                /\ pc' = "raised"
                /\ err' = "IndexError"
                /\ UNCHANGED <<auroc, i>>
           ELSE IF Skipped(y)
           THEN /\ i' = i + 1
                /\ UNCHANGED <<auroc, pc, err>>
           ELSE IF slot \notin 0..(Len(auroc) - 1)
           THEN /\ pc' = "raised"
                /\ err' = "IndexError"
                /\ UNCHANGED <<auroc, i>>
           ELSE /\ auroc' = [auroc EXCEPT ![slot + 1] = WindowScore(y, scores)]
                /\ i' = i + 1
                /\ UNCHANGED <<pc, err>>
    /\ UNCHANGED <<sample, pad, attrs, window, nt_length, auroc_median, run,
                   prev_profile, prev_auroc>>
    /\ UNCHANGED <<pending, plot, profileVars, pdb>>

\* line 78, after the last center
Finish ==
    /\ pc = "loop"
    /\ i \notin Centers(Len(profile), pad)
    /\ auroc_median' = nanmedian(auroc)
    /\ attrs' = attrs \cup {"auroc_median"}
    /\ pc' = "done"
    /\ UNCHANGED <<sample, pad, window, nt_length, auroc, i, err, run,
                   prev_profile, prev_auroc>>
    /\ UNCHANGED <<pending, plot, profileVars, pdb>>

----------------------------------------------------------------------------
(* The samples and pads the constructor is run on *)

\* number of unpaired nucleotides leading a "block" structure
BlockKs == {0} \cup ((MinSupport - 1)..(MinSupport + 2))

\* a structure: the first k nucleotides unpaired, or every second one
Structures == {<<"block", k>> : k \in BlockKs} \cup {<<"alt", p>> : p \in {0, 1}}

\* whether 0-based position j is unpaired in structure st; a "loop" is a
\* hairpin loop of MinSupport + 1 unpaired nucleotides starting at st[2]
Unpaired(st, j) ==
    CASE st[1] = "block" -> j < st[2]
      [] st[1] = "alt" -> j % 2 = st[2]
      [] OTHER -> st[2] <= j /\ j <= st[2] + MinSupport

\* the base-pair table: 0 for an unpaired nucleotide, else the 1-based
\* position of a partner
CtOf(st, n) == [k \in 1..n |-> IF Unpaired(st, k - 1) THEN 0 ELSE (k % n) + 1]

Signals == {"separated", "inverse", "constant", "mixed"}

\* the reactivity level at 0-based position j
Level(sig, st, j) ==
    CASE sig = "separated" ->
            IF Unpaired(st, j) THEN 2 + (j % (MaxLevel - 1)) ELSE 1
      [] sig = "inverse" ->
            IF Unpaired(st, j) THEN 1 ELSE 2 + (j % (MaxLevel - 1))
      [] sig = "constant" -> 2
      [] OTHER -> 1 + (j % MaxLevel)

\* the sets of positions without a reactivity: none, one, two neighbours, all
Masks(n) == {{}} \cup {{j} : j \in 0..(n - 1)}
                 \cup {{j, j + 1} : j \in 0..(n - 2)}
                 \cup {0..(n - 1)}

ProfileOf(sig, st, n, mask) ==
    [k \in 1..n |-> IF (k - 1) \in mask THEN NaNLevel ELSE Level(sig, st, k - 1)]

SampleOf(sig, st, n, mask) ==
    [keys |-> Required, Norm_profile |-> ProfileOf(sig, st, n, mask),
     ct |-> CtOf(st, n), length |-> n]

\* the fixture of 50 nucleotides: reactivities 0.1 and 0.9 (levels 1 and 9),
\* the first 25 unpaired, the last 25 paired
Fixture ==
    [keys |-> Required,
     Norm_profile |-> [k \in 1..50 |->
                         IF k <= 5 THEN 1 ELSE IF k <= 25 THEN 9
                         ELSE IF k <= 45 THEN 1 ELSE 9],
     ct |-> [k \in 1..50 |-> IF k <= 25 THEN 0 ELSE 76 - k],
     length |-> 50]

\* windows that can hold the support: pad and length around the threshold
MainInputs ==
    \E p \in MinSupport..MaxPad, n \in (2 * MinSupport)..MaxN,
       st \in Structures, sig \in Signals :
        \E mask \in Masks(n) :
            /\ pad = p
            /\ sample = SampleOf(sig, st, n, mask)

\* the pads at the edge of the domain, on every length
EdgeInputs ==
    \E p \in {-1, 0}, n \in 0..MaxN, st \in Structures, sig \in Signals :
        /\ pad = p
        /\ sample = SampleOf(sig, st, n, {})

FixtureInput ==
    /\ pad = 20
    /\ sample = Fixture

\* a sample that lacks the profile, the structure or both
MissingInputs ==
    \E ks \in (SUBSET Required) \ {Required} :
        /\ pad = MinSupport
        /\ sample = [keys |-> ks, Norm_profile |-> <<>>, ct |-> <<>>, length |-> 0]

\* a sample whose base-pair table is one nucleotide shorter or longer than
\* its profile
MismatchInputs ==
    \E n \in (2 * MinSupport)..(2 * MinSupport + 2), d \in {-1, 1},
       st \in Structures :
        /\ pad = MinSupport
        /\ sample = [keys |-> Required,
                     Norm_profile |-> ProfileOf("separated", st, n, {}),
                     ct |-> CtOf(st, n + d), length |-> n + d]

Unset ==
    /\ attrs = {}
    /\ window = 0
    /\ nt_length = 0
    /\ auroc = <<>>
    /\ auroc_median = NaN
    /\ i = 0
    /\ pc = "start"
    /\ err = "none"
    /\ run = 0
    /\ prev_profile = <<>>
    /\ prev_auroc = <<>>
    /\ pending = {}
    /\ plot = <<>>

\* no Profile method is under study
NoProfile ==
    /\ table = <<>>
    /\ call = <<>>
    /\ pstatus = "idle"
    /\ returned = <<>>

NoPDB == pdb = <<>>

Init ==
    /\ MainInputs \/ EdgeInputs \/ FixtureInput \/ MissingInputs
          \/ MismatchInputs
    /\ Unset
    /\ NoProfile
    /\ NoPDB

Next == Construct \/ WindowStep \/ Finish

Spec == Init /\ [][Next]_vars

----------------------------------------------------------------------------
(* A second construction on the same sample with one more reactivity       *)
(* missing: the caller replaces one value of Norm_profile by np.nan and    *)
(* builds a new WindowedAUROC.  The first profile and result are kept for  *)
(* comparison.                                                             *)

\* prof with the value at 0-based position j replaced by np.nan
Masked(prof, j) == [prof EXCEPT ![j + 1] = NaNLevel]

InjectNaN ==
    /\ pc = "done"
    /\ run = 1
    /\ \E j \in 0..(Len(profile) - 1) :
          /\ ~isnan(At(profile, j))
          /\ sample' = [sample EXCEPT !.Norm_profile = Masked(profile, j)]
    /\ prev_profile' = profile
    /\ prev_auroc' = auroc
    /\ attrs' = {}
    /\ window' = 0
    /\ nt_length' = 0
    /\ auroc' = <<>>
    /\ auroc_median' = NaN
    /\ i' = 0
    /\ pc' = "start"
    /\ UNCHANGED <<pad, err, run>>
    /\ UNCHANGED <<pending, plot, profileVars, pdb>>

\* windows one nucleotide around the support threshold, at most one
\* reactivity missing at first
\* the structures of the second construction: a hairpin too
RerunStructures == Structures \cup {<<"loop", MinSupport \div 2>>}

RerunInputs ==
    \E n \in (2 * MinSupport + 1)..(2 * MinSupport + RerunExtra),
       st \in RerunStructures, sig \in {"separated", "mixed"} :
        \E mask \in {m \in Masks(n) : Cardinality(m) <= 1} :
            /\ pad = MinSupport
            /\ sample = SampleOf(sig, st, n, mask)

InitRerun == RerunInputs /\ Unset /\ NoProfile /\ NoPDB

NextRerun == Construct \/ WindowStep \/ Finish \/ InjectNaN

SpecRerun == InitRerun /\ [][NextRerun]_vars

----------------------------------------------------------------------------
(* A second construction on the sample with the complementary structure:   *)
(* the caller hands over a base-pair table in which every paired           *)
(* nucleotide is unpaired and every unpaired one paired, the profile as it *)
(* was.                                                                    *)

\* the table with the two classes swapped
Swapped(table_ct) ==
    [k \in 1..Len(table_ct) |->
        IF table_ct[k] = 0 THEN (k % Len(table_ct)) + 1 ELSE 0]

SwapClasses ==
    /\ pc = "done"
    /\ run = 1
    /\ sample' = [sample EXCEPT !.ct = Swapped(ct)]
    /\ prev_profile' = profile
    /\ prev_auroc' = auroc
    /\ attrs' = {}
    /\ window' = 0
    /\ nt_length' = 0
    /\ auroc' = <<>>
    /\ auroc_median' = NaN
    /\ i' = 0
    /\ pc' = "start"
    /\ UNCHANGED <<pad, err, run>>
    /\ UNCHANGED <<pending, plot, profileVars, pdb>>

NextSwap == Construct \/ WindowStep \/ Finish \/ SwapClasses

SpecSwap == InitRerun /\ [][NextSwap]_vars

----------------------------------------------------------------------------
(* A second construction on the sample after the caller has replaced up to *)
(* MaxInjected reactivities by np.nan at once.                             *)

RECURSIVE MaskedAll(_, _)
MaskedAll(prof, J) ==
    IF J = {} THEN prof
    ELSE LET j == CHOOSE x \in J : TRUE
         IN  MaskedAll(Masked(prof, j), J \ {j})

InjectNaNs ==
    /\ pc = "done"
    /\ run = 1
    /\ \E f \in [1..MaxInjected -> 0..(Len(profile) - 1)] :
          LET J == {f[k] : k \in 1..MaxInjected}
          IN  /\ \A j \in J : ~isnan(At(profile, j))
              /\ sample' = [sample EXCEPT !.Norm_profile = MaskedAll(profile, J)]
    /\ prev_profile' = profile
    /\ prev_auroc' = auroc
    /\ attrs' = {}
    /\ window' = 0
    /\ nt_length' = 0
    /\ auroc' = <<>>
    /\ auroc_median' = NaN
    /\ i' = 0
    /\ pc' = "start"
    /\ UNCHANGED <<pad, err, run>>
    /\ UNCHANGED <<pending, plot, profileVars, pdb>>

\* up to three windows around the support threshold, no reactivity missing
\* at first
MaskInputs ==
    \E n \in (2 * MinSupport + 1)..(2 * MinSupport + 3), st \in RerunStructures :
        /\ pad = MinSupport
        /\ sample = SampleOf("mixed", st, n, {})

InitMask == MaskInputs /\ Unset /\ NoProfile /\ NoPDB

NextMask == Construct \/ WindowStep \/ Finish \/ InjectNaNs

SpecMask == InitMask /\ [][NextMask]_vars

----------------------------------------------------------------------------
(* A second construction on the unchanged sample whose loop body runs on   *)
(* the centers in any order, as a parallel evaluation over ranges of i     *)
(* would.  The first, sequential result is kept for comparison.            *)

\* the caller builds a second WindowedAUROC on the same sample
Reconstruct ==
    /\ pc = "done"
    /\ run = 1
    /\ prev_profile' = profile
    /\ prev_auroc' = auroc
    /\ attrs' = {}
    /\ window' = 0
    /\ nt_length' = 0
    /\ auroc' = <<>>
    /\ auroc_median' = NaN
    /\ i' = 0
    /\ pc' = "start"
    /\ UNCHANGED <<sample, pad, err, run, pending, plot, profileVars, pdb>>

\* line 62: the centers of the loop are handed out
Scatter ==
    /\ pc = "loop"
    /\ run = 2
    /\ i = pad
    /\ pending' = Centers(Len(profile), pad)
    /\ pc' = "scatter"
    /\ UNCHANGED <<sample, pad, attrs, window, nt_length, auroc, auroc_median,
                   i, err, run, prev_profile, prev_auroc, plot, profileVars, pdb>>

\* lines 63-76: the loop body on any center not yet evaluated
WindowAny ==
    /\ pc = "scatter"
    /\ \E c \in pending :
          LET win_profile == WindowOf(profile, pad, c)
              win_ct      == WindowOf(ct, pad, c)
              valid       == Valid(win_profile)
              y           == Classification(win_ct, valid)
              scores      == Scores(win_profile, valid)
              slot        == Slot(c, Len(auroc))
          IN  /\ pending' = pending \ {c}
              /\ IF Len(win_ct) # Len(valid)
                 THEN /\ pc' = "raised"
                      /\ err' = "IndexError"
                      /\ UNCHANGED auroc
                 ELSE IF Skipped(y)
                 THEN UNCHANGED <<auroc, pc, err>>
                 ELSE IF slot \notin 0..(Len(auroc) - 1)
                 THEN /\ pc' = "raised"
                      /\ err' = "IndexError"
                      /\ UNCHANGED auroc
                 ELSE /\ auroc' = [auroc EXCEPT ![slot + 1] = WindowScore(y, scores)]
                      /\ UNCHANGED <<pc, err>>
    /\ UNCHANGED <<sample, pad, attrs, window, nt_length, auroc_median, i, run,
                   prev_profile, prev_auroc, plot, profileVars, pdb>>

\* line 62: every center has been evaluated, the loop is over
Gather ==
    /\ pc = "scatter"
    /\ pending = {}
    /\ i' = Max(pad, Len(profile) - pad)
    /\ pc' = "loop"
    /\ UNCHANGED <<sample, pad, attrs, window, nt_length, auroc, auroc_median,
                   err, run, prev_profile, prev_auroc, pending, plot,
                   profileVars, pdb>>

NextAnyOrder ==
    Construct \/ WindowStep \/ Finish \/ Reconstruct \/ Scatter \/ WindowAny
        \/ Gather

SpecAnyOrder == InitRerun /\ [][NextAnyOrder]_vars

----------------------------------------------------------------------------
(* WindowedAUROC.plot_auroc, lines 83-139, called by __init__ when show is *)
(* set and by the user afterwards.  Of the figure the model keeps what it  *)
(* is drawn from.                                                          *)

\* the region argument: <<>> for None, else <<start, stop>>, 1-based
Regions ==
    {<<>>} \cup {<<a, b>> : a \in 1..MaxRegionStart,
                           b \in (nt_length - 1)..(nt_length + 1)}

\* lines 91-98
RegionStart(region) == IF region = <<>> THEN 1 ELSE region[1]
RegionStop(region) == IF region = <<>> THEN nt_length ELSE region[2]

\* lines 100-109: the x values, the filled curve and its baseline, and the
\* track label of line 125
Drawing(region, a) ==
    [region |-> <<RegionStart(region), RegionStop(region)>>,
     x_values |-> RegionStop(region) + 1 - RegionStart(region),
     fill |-> PySlice(a, RegionStart(region) - 1, RegionStop(region)),
     baseline |-> auroc_median,
     label |-> window]

\* the variant of plot_auroc that keeps the plotted part of the array in
\* self.auroc
PlotAurocCropping ==
    /\ pc = "done"
    /\ \E region \in Regions :
          /\ RegionStart(region) <= RegionStop(region)
          /\ plot' = Drawing(region, auroc)
          /\ auroc' = PySlice(auroc, RegionStart(region) - 1, RegionStop(region))
    /\ UNCHANGED <<sample, pad, attrs, window, nt_length, auroc_median,
                   i, pc, err, run, prev_profile, prev_auroc, pending,
                   profileVars, pdb>>

\* plot_auroc(region)
PlotAuroc ==
    /\ pc = "done"
    /\ \E region \in Regions :
          /\ RegionStart(region) <= RegionStop(region)
          /\ plot' = Drawing(region, auroc)
    /\ UNCHANGED <<sample, pad, attrs, window, nt_length, auroc, auroc_median,
                   i, pc, err, run, prev_profile, prev_auroc, pending,
                   profileVars, pdb>>

NextPlot == Construct \/ WindowStep \/ Finish \/ PlotAuroc

SpecPlot == InitRerun /\ [][NextPlot]_vars

\* the constructor with show set, on samples that hold their data and on
\* samples that miss some
InitShow == (RerunInputs \/ MissingInputs) /\ Unset /\ NoProfile /\ NoPDB

SpecShow == InitShow /\ [][NextPlot]_vars

----------------------------------------------------------------------------
(* Profile.calculate_windows, rnavigate/data/profile.py lines 51-94.       *)
(* Profile.data is a table of columns of floats, each a sequence of        *)
(* fractions with nan for a missing value.  A column name is a tuple: a    *)
(* literal name is <<name>>, and f'{method}_{window}_nt' is the tuple of   *)
(* its pieces.  An optional argument is <<>> for None and <<v>> for v; the *)
(* method argument is one of the strings.                                  *)

\* line 74: f'{method}_{window}_nt'
FString(method, w) == <<method, "_", w, "_nt">>

\* lines 79-86: the methods that have a branch
Aggregations == {"median", "mean", "minimum", "maximum"}

\* the variant of WindowRejected with the test inverted
WindowRejectedInverted(w) == w % 2 # 0

\* line 71: window % 2 != 1
WindowRejected(w) == w % 2 # 1

\* line 77: what pandas' rolling refuses with a ValueError, a negative
\* window and min_periods above the window
RollingRejected(w, min_periods) == w < 0 \/ min_periods > w

\* the variant of RollingWindow of a trailing window (center=False)
RollingWindowTrailing(col, w, p) ==
    SubSeq(col, Max(1, p + 2 - w), Min(Len(col), p + 1))

\* line 77, center=True: the values of the window at 0-based position p,
\* (w - 1) / 2 on each side, without what falls outside the column
RollingWindow(col, w, p) ==
    SubSeq(col, Max(1, p + 1 - (w - 1) \div 2),
                Min(Len(col), p + 1 + (w - 1) \div 2))

\* lines 79-86: the value of a window of observations, none nan
Aggregate(method, obs) ==
    CASE method = "median" -> nanmedian(obs)
      [] method = "mean" -> FracMul(FracSum(obs), <<1, Len(obs)>>)
      [] method = "minimum" -> Sorted(obs)[1]
      [] method = "maximum" -> Sorted(obs)[Len(obs)]

\* lines 77-86: the rolling aggregate; a window with fewer than min_periods
\* observations gives nan
Rolling(col, w, min_periods, method) ==
    [k \in 1..Len(col) |->
        LET obs == Defined(RollingWindow(col, w, k - 1))
        IN  IF Len(obs) >= min_periods /\ obs # <<>>
            THEN Aggregate(method, obs) ELSE NaN]

\* self.data[name] = values
SetColumn(tbl, name, values) ==
    [nm \in DOMAIN tbl \cup {name} |-> IF nm = name THEN values ELSE tbl[nm]]

\* line 94: self.data.loc[self.data[column].isna(), new_name] = np.nan
MaskNA(tbl, column, name) ==
    [tbl EXCEPT ![name] =
        [k \in 1..Len(tbl[name]) |->
            IF IsNaN(tbl[column][k]) THEN NaN ELSE tbl[name][k]]]

\* the arguments of the calls
Columns == {<<"Norm_profile">>, <<"Reactivity_profile">>}
Windows == (-1)..MaxWindow
Methods == Aggregations \cup {"mode"}
NewNames(column) == {<<>>, <<"smooth">>, column}
MinimumPoints == {<<>>} \cup {<<m>> : m \in 1..MaxMinimumPoints}

\* calculate_windows(column, window, method, new_name, minimum_points,
\* mask_na)
CalculateWindows ==
    /\ pstatus = "idle"
    /\ \E column \in Columns, w \in Windows, method \in Methods,
          minimum_points \in MinimumPoints, mask_na \in BOOLEAN :
        \E new_name \in NewNames(column) :
          LET name == IF new_name = <<>> THEN FString(method, w) ELSE new_name
              min_periods == IF minimum_points = <<>> THEN w
                             ELSE minimum_points[1]
              rolled == SetColumn(table, name,
                            Rolling(table[column], w, min_periods, method))
          IN  /\ call' = [column |-> column, window |-> w, method |-> method,
                          new_name |-> new_name,
                          minimum_points |-> minimum_points,
                          mask_na |-> mask_na]
              /\ IF WindowRejected(w)
                 THEN pstatus' = "ValueError" /\ table' = table
                 ELSE IF column \notin DOMAIN table
                 THEN pstatus' = "KeyError" /\ table' = table
                 ELSE IF RollingRejected(w, min_periods)
                         \/ method \notin Aggregations
                 THEN pstatus' = "ValueError" /\ table' = table
                 ELSE /\ pstatus' = "returned"
                      /\ table' = IF mask_na THEN MaskNA(rolled, column, name)
                                  ELSE rolled
    /\ returned' = <<>>
    /\ UNCHANGED <<sample, pad, attrs, window, nt_length, auroc, auroc_median,
                   i, pc, err, run, prev_profile, prev_auroc, pending, plot,
                   pdb>>

\* a float of the table: a value 1..MaxValue, or nan
Float(v) == IF v = NaNLevel THEN NaN ELSE <<v, 1>>

\* a Profile of up to MaxRows nucleotides with its Nucleotide and
\* Norm_profile columns, no method called yet
ProfileInputs ==
    \E n \in 0..MaxRows : \E values \in [1..n -> 0..MaxValue] :
        /\ table = [nm \in {<<"Nucleotide">>, <<"Norm_profile">>} |->
                       IF nm = <<"Nucleotide">> THEN [k \in 1..n |-> <<k, 1>>]
                       ELSE [k \in 1..n |-> Float(values[k])]]
        /\ call = <<>>
        /\ pstatus = "idle"
        /\ returned = <<>>

\* the Profile stands alone: no WindowedAUROC is built on a sample
NoSample ==
    /\ sample = [keys |-> {}, Norm_profile |-> <<>>, ct |-> <<>>, length |-> 0]
    /\ pad = 0

InitProfile == ProfileInputs /\ NoSample /\ Unset /\ NoPDB

NextProfile == CalculateWindows

SpecProfile == InitProfile /\ [][NextProfile]_vars

----------------------------------------------------------------------------
(* Profile.normalize and the norm_* methods, rnavigate/data/profile.py     *)
(* lines 106-300.  A standard error is the square root of a variance: an   *)
(* error column and an error factor hold the square of the program's       *)
(* value, which keeps them exact fractions.                                *)

\* x / y of two floats; the divisors met are reactivities and scaling
\* factors, none of them 0
FracDiv(x, y) ==
    IF IsNaN(x) \/ IsNaN(y) \/ y[1] = 0 THEN NaN
    ELSE IF y[1] < 0 THEN Frac(-(x[1] * y[2]), x[2] * (-y[1]))
    ELSE Frac(x[1] * y[2], x[2] * y[1])

\* np.mean; nan for an empty array
Mean(a) == IF a = <<>> THEN NaN ELSE FracMul(FracSum(a), <<1, Len(a)>>)

\* (np.std(a) / np.sqrt(len(a))) squared
StdErrSq(a) ==
    IF a = <<>> THEN NaN
    ELSE LET m == Mean(a)
             d == [k \in 1..Len(a) |->
                     FracMul(FracSub(a[k], m), FracSub(a[k], m))]
         IN  FracMul(Mean(d), <<1, Len(a)>>)

\* the value at position q / 100 * (len - 1) of a sorted array, between
\* two entries in proportion
Interpolated(sorted, q) ==
    IF (q * (Len(sorted) - 1)) % 100 = 0
    THEN sorted[(q * (Len(sorted) - 1)) \div 100 + 1]
    ELSE FracAdd(sorted[(q * (Len(sorted) - 1)) \div 100 + 1],
                 FracMul(FracSub(sorted[(q * (Len(sorted) - 1)) \div 100 + 2],
                                 sorted[(q * (Len(sorted) - 1)) \div 100 + 1]),
                         <<(q * (Len(sorted) - 1)) % 100, 100>>))

\* np.percentile(a, q) with linear interpolation, q a whole number; nan if
\* a holds a nan, and for an empty array in the numpy versions that do not
\* raise
Percentile(a, q) ==
    IF a = <<>> \/ (\E k \in 1..Len(a) : IsNaN(a[k])) THEN NaN
    ELSE Interpolated(Sorted(a), q)

\* values[np.isfinite(values)]
Finite(values) == Defined(values)

\* a[a < bound], a[a <= bound], a[a > bound], a[a >= bound]; a comparison
\* with nan is False
Below(a, bound) ==
    BoolIndex(a, [k \in 1..Len(a) |->
                     ~IsNaN(a[k]) /\ ~IsNaN(bound) /\ FracLess(a[k], bound)])
NotAbove(a, bound) ==
    BoolIndex(a, [k \in 1..Len(a) |->
                     ~IsNaN(a[k]) /\ ~IsNaN(bound) /\ ~FracLess(bound, a[k])])
Above(a, bound) ==
    BoolIndex(a, [k \in 1..Len(a) |->
                     ~IsNaN(a[k]) /\ ~IsNaN(bound) /\ FracLess(bound, a[k])])
NotBelow(a, bound) ==
    BoolIndex(a, [k \in 1..Len(a) |->
                     ~IsNaN(a[k]) /\ ~IsNaN(bound) /\ ~FracLess(a[k], bound)])

\* <<factor, error factor>> of the values that set the scale
ScaleOf(normset) == <<Mean(normset), StdErrSq(normset)>>

\* norm_boxplot, lines 241-246, on iqr_values
BoxplotScale(iqr_values) ==
    ScaleOf(Above(iqr_values, Percentile(iqr_values, 90)))

\* norm_boxplot, lines 233-240: iqr_values, given the values inside the
\* fence
BoxplotKept(finite_values, inside, p90, p95) ==
    IF Len(finite_values) < 100 /\ Len(inside) * 100 < 95 * Len(finite_values)
    THEN NotAbove(finite_values, p95)
    ELSE IF Len(finite_values) >= 100
              /\ Len(inside) * 10 < 9 * Len(finite_values)
    THEN Below(finite_values, p90)
    ELSE inside

\* norm_boxplot, lines 229-232: the values below 1.5 * iqr + p75
BoxplotInside(finite_values, p25, p75) ==
    Below(finite_values, FracAdd(FracMul(<<3, 2>>, FracSub(p75, p25)), p75))

\* norm_boxplot, lines 228-246, on finite_values
BoxplotOfFinite(finite_values) ==
    BoxplotScale(
        BoxplotKept(finite_values,
                    BoxplotInside(finite_values, Percentile(finite_values, 25),
                                  Percentile(finite_values, 75)),
                    Percentile(finite_values, 90),
                    Percentile(finite_values, 95)))

\* lines 217-246: <<factor, error factor>>
norm_boxplot(values) == BoxplotOfFinite(Finite(values))

\* norm_percentiles, lines 291-296, on finite_values
PercentilesOfFinite(finite_values, lower_bound, upper_bound) ==
    ScaleOf(NotAbove(NotBelow(finite_values,
                              Percentile(finite_values, lower_bound)),
                     Percentile(finite_values, upper_bound)))

\* lines 277-296, with the default bounds 90 and 99
norm_percentiles(values) == PercentilesOfFinite(Finite(values), 90, 99)

\* max(n1, n2) of Python: n2 only if n2 > n1
PyMax(n1, n2) ==
    IF ~IsNaN(n1) /\ ~IsNaN(n2) /\ FracLess(n1, n2) THEN n2 ELSE n1

\* norm_eDMS, lines 269-275
EDMSScale(factor, normset) ==
    IF ~IsNaN(factor) /\ FracLess(factor, <<2, 1000>>) THEN <<NaN, NaN>>
    ELSE <<factor, StdErrSq(normset)>>

\* norm_eDMS, lines 263-268: n2, 0 when no value is above 0.001
ReactiveNorm(reactive) ==
    IF reactive = <<>> THEN <<0, 1>> ELSE Percentile(reactive, 75)

\* norm_eDMS, lines 258-275, given normset
EDMSOfNormset(values, normset) ==
    EDMSScale(PyMax(Mean(normset), ReactiveNorm(Above(values, <<1, 1000>>))),
              normset)

\* lines 248-275
norm_eDMS(values) ==
    IF Len(values) < 10 THEN <<NaN, NaN>>
    ELSE EDMSOfNormset(values,
             Below(NotBelow(values, Percentile(values, 90)),
                   Percentile(values, 95)))

\* the keys of the factor dictionaries
Nucleotides == {"A", "C", "G", "U"}

\* line 160: self.sequence.upper().replace('T', 'U'), one character
NormNt(ch) ==
    CASE ch \in {"a", "A"} -> "A"
      [] ch \in {"c", "C"} -> "C"
      [] ch \in {"g", "G"} -> "G"
      [] ch \in {"u", "U", "t", "T"} -> "U"
      [] OTHER -> ch

\* self.metric and self.error_column of a SHAPEMaP profile (lines 313-315);
\* a profile whose table holds no Norm_stderr column has no error column
Metric == <<"Norm_profile">>
ErrorColumn(tbl) ==
    IF <<"Norm_stderr">> \in DOMAIN tbl THEN <<"Norm_stderr">> ELSE <<>>

\* self.sequence, which normalize_sequence keeps in the Sequence column
\* (line 26)
SequenceOf(tbl) == tbl[<<"Sequence">>]

\* lines 172-177: the function and the groups of a method; nt_groups is
\* None and becomes ['AUCG'] on lines 179-180
MethodsGroups ==
    [DMS |-> <<"norm_percentiles", <<{"A", "C"}, {"G", "U"}>>>>,
     eDMS |-> <<"norm_eDMS", <<{"A"}, {"C"}, {"G"}, {"U"}>>>>,
     boxplot |-> <<"norm_boxplot", <<Nucleotides>>>>,
     percentiles |-> <<"norm_percentiles", <<Nucleotides>>>>]

\* line 183: norm_method(profile[in_group])
Apply(fn, values) ==
    CASE fn = "norm_boxplot" -> norm_boxplot(values)
      [] fn = "norm_percentiles" -> norm_percentiles(values)
      [] fn = "norm_eDMS" -> norm_eDMS(values)

\* line 182: profile[in_group]
InGroup(prof, seq, group) ==
    BoolIndex(prof, [k \in 1..Len(prof) |-> seq[k] \in group])

\* what a norm function raises on values without a finite one.  numpy's
\* percentile of an empty array raises IndexError in some versions and
\* gives nan in others (empty says which); with nan norm_boxplot divides
\* by num_finite = 0 on line 238
Raised(fn, values, empty) ==
    IF fn = "norm_eDMS" \/ Finite(values) # <<>> THEN "none"
    ELSE IF empty = "IndexError" THEN "IndexError"
    ELSE IF fn = "norm_boxplot" THEN "ZeroDivisionError"
    ELSE "none"

\* lines 169-186: <<factor, error factor>> of every nucleotide
Factors(fn, groups, prof, seq) ==
    [nt \in Nucleotides |->
        LET g == CHOOSE k \in 1..Len(groups) : nt \in groups[k]
        IN  Apply(fn, InGroup(prof, seq, groups[g]))]

\* lines 161-166: normerr before the factors are known
InitialError(prof, errors) ==
    [k \in 1..Len(errors) |->
        IF ~IsNaN(prof[k]) /\ prof[k][1] = 0 THEN <<0, 1>>
        ELSE FracDiv(errors[k], FracMul(prof[k], prof[k]))]

\* lines 192-197: the propagated error of every position
PropagatedError(normerr, norm_profile, seq, profile_factors, error_factors) ==
    [k \in 1..Len(normerr) |->
        FracMul(FracAdd(normerr[k],
                        FracMul(error_factors[seq[k]],
                                FracMul(profile_factors[seq[k]],
                                        profile_factors[seq[k]]))),
                FracMul(norm_profile[k], norm_profile[k]))]

\* normalize(norm_method=..., profile_factors=...) on the table tbl, the
\* other arguments left at their defaults: the outcome, the table after the
\* call and the value returned
normalize(tbl, norm_method, profile_factors, empty) ==
    LET prof == tbl[Metric]
        norm_sequence == [k \in 1..Len(SequenceOf(tbl)) |-> NormNt(SequenceOf(tbl)[k])]
        error_column == ErrorColumn(tbl)
        calculated == profile_factors = <<>>
        raises(status, t) == [status |-> status, table |-> t, returned |-> <<>>]
    IN  IF calculated /\ (norm_method = <<>>
                            \/ norm_method[1] \notin DOMAIN MethodsGroups)
        THEN raises("KeyError", tbl)
        ELSE
        LET fn == MethodsGroups[norm_method[1]][1]
            groups == MethodsGroups[norm_method[1]][2]
            failed == {k \in 1..Len(groups) :
                         Raised(fn, InGroup(prof, norm_sequence, groups[k]),
                                empty) # "none"}
        IN  IF calculated /\ failed # {}
            THEN raises(Raised(fn, <<>>, empty), tbl)
            ELSE IF \E k \in 1..Len(norm_sequence) :
                        norm_sequence[k] \notin Nucleotides
            THEN raises("KeyError", tbl)
            ELSE
            LET factors == Factors(fn, groups, prof, norm_sequence)
                factor_of == IF calculated
                             THEN [nt \in Nucleotides |-> factors[nt][1]]
                             ELSE profile_factors[1]
                norm_profile == [k \in 1..Len(prof) |->
                                    FracDiv(prof[k], factor_of[norm_sequence[k]])]
                written == SetColumn(tbl, <<"Norm_profile">>, norm_profile)
            IN  IF error_column = <<>>
                THEN [status |-> "returned", table |-> written,
                      returned |-> factor_of]
                ELSE IF ~calculated
                THEN \* line 191 reads error_factors, assigned on line 171 only
                     raises("UnboundLocalError", written)
                ELSE [status |-> "returned",
                      table |-> SetColumn(written, <<"Norm_error">>,
                                   PropagatedError(
                                       InitialError(prof, tbl[error_column]),
                                       norm_profile, norm_sequence, factor_of,
                                       [nt \in Nucleotides |-> factors[nt][2]])),
                      returned |-> factor_of]

\* the arguments of the calls: the methods of the docstring, "percentile"
\* among them, and None
NormMethods ==
    {<<>>, <<"boxplot">>, <<"percentiles">>, <<"percentile">>, <<"DMS">>,
     <<"eDMS">>}

\* factor dictionaries: one factor for all, and one per nucleotide with an
\* undefined one
FactorDicts ==
    {[nt \in Nucleotides |-> <<2, 1>>],
     [nt \in Nucleotides |->
         CASE nt = "A" -> <<1, 2>> [] nt = "C" -> <<2, 1>>
           [] nt = "G" -> <<4, 1>> [] OTHER -> NaN]}

NumpyEmpty == {"IndexError", "nan"}

\* normalize(norm_method=..., profile_factors=...)
Normalize ==
    /\ pstatus = "idle"
    /\ \E norm_method \in NormMethods,
          profile_factors \in {<<>>} \cup {<<d>> : d \in FactorDicts},
          empty \in NumpyEmpty :
        LET outcome == normalize(table, norm_method, profile_factors, empty)
        IN  /\ call' = [method |-> "normalize", norm_method |-> norm_method,
                        profile_factors |-> profile_factors]
            /\ pstatus' = outcome.status
            /\ table' = outcome.table
            /\ returned' = outcome.returned
    /\ UNCHANGED <<sample, pad, attrs, window, nt_length, auroc, auroc_median,
                   i, pc, err, run, prev_profile, prev_auroc, pending, plot,
                   pdb>>

\* normalize_external(profiles, norm_method=...), lines 201-215.  The other
\* profiles hold finite reactivities; nfacs is what their combined profile
\* returns, and it raises as normalize does for a norm_method that is no
\* key
NormalizeExternal ==
    /\ pstatus = "idle"
    /\ \E norm_method \in NormMethods, nfacs \in FactorDicts,
          empty \in NumpyEmpty :
        LET outcome == normalize(table, <<>>, <<nfacs>>, empty)
        IN  /\ call' = [method |-> "normalize_external",
                        norm_method |-> norm_method,
                        profile_factors |-> <<nfacs>>]
            /\ IF norm_method = <<>> \/ norm_method[1] \notin DOMAIN MethodsGroups
               THEN /\ pstatus' = "KeyError"
                    /\ table' = table
                    /\ returned' = <<>>
               ELSE /\ pstatus' = outcome.status
                    /\ table' = outcome.table
                    /\ returned' = IF outcome.status = "returned" THEN nfacs
                                   ELSE <<>>
    /\ UNCHANGED <<sample, pad, attrs, window, nt_length, auroc, auroc_median,
                   i, pc, err, run, prev_profile, prev_auroc, pending, plot,
                   pdb>>

\* the characters of the Sequence column, by position
Letters == <<"A", "c", "G", "T">>

\* the square of the standard error the table holds at every position
StderrSquared == <<1, 4>>

\* a profile of up to MaxRows nucleotides read from a ShapeMapper file: its
\* Nucleotide, Sequence and Norm_profile columns, with or without the
\* Norm_stderr column
NormalizeInputs ==
    \E n \in 0..MaxRows, with_error \in BOOLEAN :
      \E values \in [1..n -> 0..MaxValue] :
        /\ table =
             [nm \in {<<"Nucleotide">>, <<"Sequence">>, <<"Norm_profile">>}
                     \cup (IF with_error THEN {<<"Norm_stderr">>} ELSE {}) |->
                 CASE nm = <<"Nucleotide">> -> [k \in 1..n |-> <<k, 1>>]
                   [] nm = <<"Sequence">> ->
                         [k \in 1..n |-> Letters[((k - 1) % 4) + 1]]
                   [] nm = <<"Norm_profile">> -> [k \in 1..n |-> Float(values[k])]
                   [] OTHER -> [k \in 1..n |-> StderrSquared]]
        /\ call = <<>>
        /\ pstatus = "idle"
        /\ returned = <<>>

InitNormalize == NormalizeInputs /\ NoSample /\ Unset /\ NoPDB

NextNormalize == Normalize \/ NormalizeExternal

SpecNormalize == InitNormalize /\ [][NextNormalize]_vars

----------------------------------------------------------------------------
(* PDB.get_distance and PDB.get_distance_matrix, rnavigate/data/pdb.py     *)
(* lines 73-122.  Of the structure the model keeps the residue numbers of  *)
(* the chain and the coordinates of the atoms of each residue; every       *)
(* residue holds every atom asked for.  A distance is the square root of   *)
(* a sum of squares: the model holds the square of the program's value,    *)
(* which keeps it an exact fraction, nan for a missing one.                *)

\* lines 106, 121: the distance reported for a residue that is not there
Sentinel == 1000

\* the sentinel as the model holds a distance
SentinelDistance == <<Sentinel * Sentinel, 1>>

\* line 82: self.pdb_idx - self.offset, the sequence positions of the
\* residues
SeqIdx(p) == {pdb_idx - p.offset : pdb_idx \in p.pdb_idx}

\* lines 73-74
get_pdb_idx(p, seq_idx) == seq_idx + p.offset

\* lines 79-85, called with seq_idx only: pdb_idx is None
is_valid_idx(p, seq_idx) == seq_idx \in SeqIdx(p)

\* lines 87-96, for an atom named by the caller
get_xyz_coord(p, nt, atom) == p.xyz[<<atom, get_pdb_idx(p, nt)>>]

\* line 104, squared
Distance(a, b) ==
    <<(a[1] - b[1]) * (a[1] - b[1]) + (a[2] - b[2]) * (a[2] - b[2])
        + (a[3] - b[3]) * (a[3] - b[3]), 1>>

\* an index k is one of an axis of n entries; a negative one counts from
\* the end
InBounds(k, n) == (0 - n) <= k /\ k < n

\* a[k] of a numpy array, k in bounds
NumpyAt(a, k) == IF k < 0 THEN a[k + Len(a) + 1] ELSE a[k + 1]

\* lines 112-116: one coordinate of every position of the sequence, nan
\* where the structure has no residue
Coordinate(p, atom, axis) ==
    [k \in 1..p.length |->
        IF is_valid_idx(p, k) THEN <<get_xyz_coord(p, k, atom)[axis], 1>>
        ELSE NaN]

\* lines 117-119: x - x[:, np.newaxis], squared
SquaredDifferences(x) ==
    [r \in 1..Len(x) |->
        [c \in 1..Len(x) |->
            FracMul(FracSub(x[c], x[r]), FracSub(x[c], x[r]))]]

\* line 120, squared
Matrix(p, atom) ==
    LET a == SquaredDifferences(Coordinate(p, atom, 1))
        b == SquaredDifferences(Coordinate(p, atom, 2))
        c == SquaredDifferences(Coordinate(p, atom, 3))
    IN  [r \in 1..p.length |->
            [k \in 1..p.length |->
                FracAdd(FracAdd(a[r][k], b[r][k]), c[r][k])]]

\* line 121: np.nan_to_num(matrix, nan=1000)
nan_to_num(matrix) ==
    [r \in 1..Len(matrix) |->
        [c \in 1..Len(matrix[r]) |->
            IF IsNaN(matrix[r][c]) THEN SentinelDistance ELSE matrix[r][c]]]

\* lines 98-107: the outcome of get_distance(i, j, atom)
get_distance(p, nt_i, nt_j, atom) ==
    IF atom \in DOMAIN p.distance_matrix
    THEN IF InBounds(nt_i - 1, p.length) /\ InBounds(nt_j - 1, p.length)
         THEN [status |-> "returned",
               returned |-> NumpyAt(NumpyAt(p.distance_matrix[atom], nt_i - 1),
                                    nt_j - 1)]
         ELSE [status |-> "IndexError", returned |-> <<>>]
    ELSE IF is_valid_idx(p, nt_i) /\ is_valid_idx(p, nt_j)
    THEN [status |-> "returned",
          returned |-> Distance(get_xyz_coord(p, nt_i, atom),
                                get_xyz_coord(p, nt_j, atom))]
    ELSE [status |-> "returned", returned |-> SentinelDistance]

\* the atoms asked for
Atoms == {"O2'", "N1"}

\* the indices asked for: the positions of a sequence of len nucleotides,
\* the one after them and the two before them
Indices(len) == (0 - 1)..(len + 1)

GetDistance ==
    /\ \E x \in Indices(pdb.length), y \in Indices(pdb.length), atom \in Atoms :
          LET outcome == get_distance(pdb, x, y, atom)
          IN  /\ call' = [method |-> "get_distance", i |-> x, j |-> y,
                          atom |-> atom]
              /\ pstatus' = outcome.status
              /\ returned' = outcome.returned
    /\ UNCHANGED <<sample, pad, attrs, window, nt_length, auroc, auroc_median,
                   i, pc, err, run, prev_profile, prev_auroc, pending, plot,
                   table, pdb>>

\* lines 109-122
GetDistanceMatrix ==
    /\ \E atom \in Atoms :
          /\ call' = [method |-> "get_distance_matrix", i |-> 0, j |-> 0,
                      atom |-> atom]
          /\ pstatus' = "returned"
          /\ IF atom \in DOMAIN pdb.distance_matrix
             THEN /\ returned' = pdb.distance_matrix[atom]
                  /\ UNCHANGED pdb
             ELSE /\ returned' = Matrix(pdb, atom)
                  /\ pdb' = [pdb EXCEPT !.distance_matrix =
                               [a \in DOMAIN pdb.distance_matrix \cup {atom} |->
                                   IF a = atom THEN nan_to_num(Matrix(pdb, atom))
                                   ELSE pdb.distance_matrix[a]]]
    /\ UNCHANGED <<sample, pad, attrs, window, nt_length, auroc, auroc_median,
                   i, pc, err, run, prev_profile, prev_auroc, pending, plot,
                   table>>

\* the coordinates an atom is found at
Points == {<<0, 0, 0>>, <<1, 2, 2>>}

\* lines 8-25: a PDB of a sequence of up to MaxLength nucleotides, of which
\* the structure holds some, numbered from offset + 1; no distance cached
PDBInputs ==
    \E length \in 1..MaxLength, offset \in {0, 1} :
      \E present \in SUBSET (1..length) :
        \E xyz \in [Atoms \X {k + offset : k \in present} -> Points] :
            pdb = [length |-> length,
                   offset |-> offset,
                   pdb_idx |-> {k + offset : k \in present},
                   xyz |-> xyz,
                   distance_matrix |-> <<>>]

InitPDB == PDBInputs /\ NoSample /\ Unset /\ NoProfile

NextPDB == GetDistance \/ GetDistanceMatrix

SpecPDB == InitPDB /\ [][NextPDB]_vars

-----------------------------------------------------------------------------
(* get_nt_ticks, rnavigate/plots/functions/functions.py lines 42-56.  The  *)
(* sequence is the string of an alignment row, a tuple of its characters,  *)
(* "-" for a gap.                                                          *)

\* a % b of Python for b # 0: the result has the sign of b
PyMod(a, b) == IF b > 0 THEN a % b ELSE 0 - ((0 - a) % (0 - b))

\* the variant of Ticked that does not look at valid
TickedAnyColumn(valid, pos, start, end, gap) ==
    /\ PyMod(pos, gap) = 0 \/ pos = start
    /\ start <= pos /\ pos <= end

\* line 53: the condition of a tick, gap # 0
Ticked(valid, pos, start, end, gap) ==
    /\ valid
    /\ PyMod(pos, gap) = 0 \/ pos = start
    /\ start <= pos /\ pos <= end

\* lines 49-55: the loop from the 0-based column k on, pos positions
\* counted and out = <<ticks, labels>> collected so far
RECURSIVE NtTicksFrom(_, _, _, _, _, _)
NtTicksFrom(sequence, region, gap, k, pos, out) ==
    IF k = Len(sequence) THEN out
    ELSE LET valid == At(sequence, k) # "-"
             counted == IF valid THEN pos + 1 ELSE pos
         IN  NtTicksFrom(sequence, region, gap, k + 1, counted,
                 IF Ticked(valid, counted, region[1], region[2], gap)
                 THEN <<Append(out[1], k + 1), Append(out[2], counted)>>
                 ELSE out)

\* lines 42-56: the outcome of get_nt_ticks; pos % gap is evaluated at
\* every column, and raises at the first if gap is 0
get_nt_ticks(sequence, region, gap) ==
    IF gap = 0 /\ sequence # <<>>
    THEN [status |-> "ZeroDivisionError", returned |-> <<>>]
    ELSE [status |-> "returned",
          returned |-> NtTicksFrom(sequence, region, gap, 0, 0, <<<<>>, <<>>>>)]

\* the alignment rows of up to MaxColumns columns
Rows == UNION {[1..n -> {"G", "-"}] : n \in 0..MaxColumns}

\* the gap arguments
Gaps == (0 - MaxGap)..MaxGap

\* the arguments of a call about to be made
TickInputs ==
    /\ call \in [method : {"get_nt_ticks"}, sequence : Rows,
                 region : (0..MaxColumns) \X (0..MaxColumns), gap : Gaps]
    /\ pstatus = "idle"
    /\ returned = <<>>
    /\ table = <<>>

GetNtTicks ==
    /\ pstatus = "idle"
    /\ LET outcome == get_nt_ticks(call.sequence, call.region, call.gap)
       IN  /\ pstatus' = outcome.status
           /\ returned' = outcome.returned
    /\ UNCHANGED <<sample, pad, attrs, window, nt_length, auroc, auroc_median,
                   i, pc, err, run, prev_profile, prev_auroc, pending, plot,
                   table, call, pdb>>

InitTicks == TickInputs /\ NoSample /\ Unset /\ NoPDB

NextTicks == GetNtTicks

SpecTicks == InitTicks /\ [][NextTicks]_vars

-----------------------------------------------------------------------------
(* Vocabulary of the properties, stated on positions of the sequence and   *)
(* not through the operators of the program                                *)

N == Len(profile)

\* the constructor has set up the output array
Started == pc \in {"loop", "done"}

\* the sample holds both data sets and they agree on the length
ValidSample ==
    /\ Required \subseteq sample.keys
    /\ Len(ct) = N
    /\ sample.length = N

\* the centers of the windows that fit: pad <= c <= N-1-pad
FittingCenters == IF pad < 0 THEN {} ELSE {c \in 0..(N - 1) : pad <= c /\ c <= N - 1 - pad}

\* center c has been through the loop
Processed(c) == Started /\ c < i

\* the positions of the closed window [c-pad, c+pad]
WindowPositions(c) == {j \in 0..(N - 1) : c - pad <= j /\ j <= c + pad}

\* the positions of window c that hold a reactivity in prof
ValidPositions(prof, c) == {j \in WindowPositions(c) : At(prof, j) # NaNLevel}

nPaired(prof, c) == Cardinality({j \in ValidPositions(prof, c) : At(ct, j) # 0})

nUnpaired(prof, c) == Cardinality({j \in ValidPositions(prof, c) : At(ct, j) = 0})

Supported(prof, c) == nPaired(prof, c) >= MinSupport /\ nUnpaired(prof, c) >= MinSupport

IsDefined(a, c) == ~IsNaN(At(a, c))

One == <<1, 1>>

----------------------------------------------------------------------------
(* C1: for every center i in [pad, N-1-pad] that the loop has passed,      *)
(* auroc[i] is defined if and only if the window [i-pad, i+pad], without   *)
(* the positions whose reactivity is nan, holds at least 10 paired and at  *)
(* least 10 unpaired positions.                                            *)
C1_DefinedIffSupported ==
    ValidSample =>
        \A c \in FittingCenters :
            Processed(c) => (IsDefined(auroc, c) <=> Supported(profile, c))

\* a finished run with one window of 9 paired and 10 unpaired left
\* undefined and one window of 10 and 10 defined
C1_Witness ==
    /\ pc = "done"
    /\ ValidSample
    /\ \E c \in FittingCenters :
          /\ nPaired(profile, c) = MinSupport - 1
          /\ nUnpaired(profile, c) = MinSupport
          /\ ~IsDefined(auroc, c)
    /\ \E c \in FittingCenters :
          /\ nPaired(profile, c) = MinSupport
          /\ nUnpaired(profile, c) = MinSupport
          /\ IsDefined(auroc, c)

(* C3: for pad >= 0, every output position i < pad or i >= N - pad is nan  *)
(* from the moment the array exists, whatever the profile holds.           *)
C3_EndsUndefined ==
    (ValidSample /\ pad >= 0 /\ Started) =>
        /\ Len(auroc) = N
        /\ \A k \in 0..(N - 1) : (k < pad \/ k >= N - pad) => ~IsDefined(auroc, k)

\* a finished run with a defined score, whose end positions all hold a
\* reactivity and are undefined in the output
C3_Witness ==
    /\ pc = "done"
    /\ pad >= 1
    /\ \E c \in FittingCenters : IsDefined(auroc, c)
    /\ \A k \in 0..(N - 1) :
          (k < pad \/ k >= N - pad) =>
              (At(profile, k) # NaNLevel /\ ~IsDefined(auroc, k))

(* C4: on a valid sample the output array is as long as the profile, as    *)
(* the base-pair table and as nt_length.                                   *)
C4_SameLength ==
    (ValidSample /\ Started) =>
        /\ Len(auroc) = Len(profile)
        /\ Len(auroc) = Len(ct)
        /\ Len(auroc) = nt_length

\* a finished run on a sequence long enough to hold a scored window
C4_Witness ==
    /\ pc = "done"
    /\ ValidSample
    /\ Len(auroc) = N
    /\ nt_length = N
    /\ \E c \in FittingCenters : IsDefined(auroc, c)

\* window c has no missing reactivity and every unpaired position of it
\* is more reactive than every paired one
Separated(c) ==
    /\ ValidPositions(profile, c) = WindowPositions(c)
    /\ \A u, v \in WindowPositions(c) :
          (At(ct, u) = 0 /\ At(ct, v) # 0) => At(profile, u) > At(profile, v)

(* C5: a window without missing values, with at least 10 paired and 10     *)
(* unpaired positions and every unpaired reactivity above every paired     *)
(* one, scores 1.0.                                                        *)
C5_PerfectSeparation ==
    ValidSample =>
        \A c \in FittingCenters :
            (Processed(c) /\ Supported(profile, c) /\ Separated(c)) =>
                At(auroc, c) = One

\* a finished run with such a window, holding two unpaired levels
C5_Witness ==
    /\ pc = "done"
    /\ \E c \in FittingCenters :
          /\ Supported(profile, c)
          /\ Separated(c)
          /\ \E u, v \in WindowPositions(c) :
                At(ct, u) = 0 /\ At(ct, v) = 0 /\ At(profile, u) # At(profile, v)
          /\ At(auroc, c) = One

\* the valid reactivities of window c are all the same
Tied(c) ==
    \A u, v \in ValidPositions(profile, c) : At(profile, u) = At(profile, v)

(* C6: a window that meets the support threshold and whose valid           *)
(* reactivities are all identical scores 0.5.                              *)
C6_TiesScoreHalf ==
    ValidSample =>
        \A c \in FittingCenters :
            (Processed(c) /\ Supported(profile, c) /\ Tied(c)) =>
                At(auroc, c) = Half

\* a finished run with a tied window that also holds a missing reactivity
C6_Witness ==
    /\ pc = "done"
    /\ \E c \in FittingCenters :
          /\ Supported(profile, c)
          /\ Tied(c)
          /\ ValidPositions(profile, c) # WindowPositions(c)
          /\ At(auroc, c) = Half

FixtureRun == sample = Fixture /\ pad = 20

(* C7 as stated: on the 50-position fixture with pad = 20 the score at the *)
(* center of the sequence (position 24 or 25) is defined and equals 1.0.   *)
C7_FixtureScoresOne ==
    (FixtureRun /\ pc = "done") =>
        (At(auroc, 24) = One \/ At(auroc, 25) = One)

(* C7 as amended: on the fixture the scores at positions 24 and 25 are     *)
(* defined and equal 41/42: each of the two windows holds one position     *)
(* whose reactivity ties with the other class (position 4, unpaired at     *)
(* 0.1, and position 45, paired at 0.9).                                   *)
C7_FixtureScore ==
    (FixtureRun /\ pc = "done") =>
        /\ At(auroc, 24) = <<41, 42>>
        /\ At(auroc, 25) = <<41, 42>>

\* the finished run on the fixture: both windows are supported, neither is
\* separated
C7_Witness ==
    /\ FixtureRun
    /\ pc = "done"
    /\ Supported(profile, 24) /\ ~Separated(24)
    /\ Supported(profile, 25) /\ ~Separated(25)
    /\ IsDefined(auroc, 24) /\ IsDefined(auroc, 25)

\* the positions of array a that hold a score
DefinedAt(a) == {k \in 1..Len(a) : ~IsNaN(a[k])}

\* x is the r-th smallest of the defined entries of a
IsRanked(x, r, a) ==
    /\ Cardinality({k \in DefinedAt(a) : FracLess(a[k], x)}) < r
    /\ Cardinality({k \in DefinedAt(a) : ~FracLess(x, a[k])}) >= r

\* m is the median of the defined entries of a, of which there is one at
\* least: the middle one, or the mean of the two middle ones
IsMedianOf(m, a) ==
    LET n == Cardinality(DefinedAt(a))
    IN  IF n % 2 = 1
        THEN \E k \in DefinedAt(a) : m = a[k] /\ IsRanked(m, (n + 1) \div 2, a)
        ELSE \E k, l \in DefinedAt(a) :
                /\ IsRanked(a[k], n \div 2, a)
                /\ IsRanked(a[l], n \div 2 + 1, a)
                /\ ~IsNaN(m)
                /\ 2 * m[1] * a[k][2] * a[l][2]
                      = m[2] * (a[k][1] * a[l][2] + a[l][1] * a[k][2])

\* [undefined, 0.6, undefined, 0.8, 0.7]
MedianExample == <<NaN, <<3, 5>>, NaN, <<4, 5>>, <<7, 10>>>>

(* C8: auroc_median is the median of exactly the defined entries of auroc; *)
(* undefined entries do not contribute, and the array                      *)
(* [undefined, 0.6, undefined, 0.8, 0.7] has median 0.7.                   *)
C8_MedianOfDefined ==
    /\ (pc = "done" /\ DefinedAt(auroc) # {}) => IsMedianOf(auroc_median, auroc)
    /\ nanmedian(MedianExample) = <<7, 10>>

\* a finished run whose output holds undefined entries and at least three
\* scores, not all the same
C8_Witness ==
    /\ pc = "done"
    /\ Cardinality(DefinedAt(auroc)) >= 3
    /\ DefinedAt(auroc) # 1..Len(auroc)
    /\ \E k, l \in DefinedAt(auroc) : auroc[k] # auroc[l]
    /\ ~IsNaN(auroc_median)

\* no window fits, the signal is all missing, or no fitting window has
\* the support
NoScore ==
    \/ (pad >= 0 /\ N < 2 * pad + 1)
    \/ \A j \in 0..(N - 1) : At(profile, j) = NaNLevel
    \/ (pad >= 0 /\ \A c \in FittingCenters : ~Supported(profile, c))

(* C9: when no window fits or none has the support, the construction       *)
(* raises nothing, every output entry is undefined and the median is       *)
(* undefined.                                                              *)
C9_NoDataNoError ==
    (ValidSample /\ NoScore) =>
        /\ pc # "raised"
        /\ err = "none"
        /\ Started => (Len(auroc) = N /\ DefinedAt(auroc) = {})
        /\ pc = "done" => IsNaN(auroc_median)

\* a finished run on a sequence shorter than the window
C9_Witness ==
    /\ pc = "done"
    /\ pad >= 1
    /\ N >= 1
    /\ N < 2 * pad + 1
    /\ \A j \in 0..(N - 1) : At(profile, j) # NaNLevel
    /\ DefinedAt(auroc) = {}
    /\ IsNaN(auroc_median)
    /\ err = "none"

(* C10: a construction with a negative pad fails with InvalidParameter at  *)
(* once: no output array and no aggregate is produced.                     *)
C10_NegativePadRejected ==
    (pad < 0 /\ pc # "start") =>
        /\ pc = "raised"
        /\ err = "InvalidParameter"
        /\ "auroc" \notin attrs
        /\ "auroc_median" \notin attrs

\* the second construction has finished
Rerun == run = 2 /\ pc = "done"

\* the positions whose reactivity the caller replaced by nan
Injected == {j \in 0..(N - 1) : At(profile, j) # At(prev_profile, j)}

(* C2: a position whose reactivity is nan counts toward neither class:     *)
(* when one paired position of a window that held exactly 10 valid paired  *)
(* and 10 valid unpaired positions loses its reactivity, the window's      *)
(* center becomes undefined.                                               *)
C2_MaskedPairedDropsWindow ==
    Rerun =>
        \A c \in FittingCenters :
            ( /\ nPaired(prev_profile, c) = MinSupport
              /\ nUnpaired(prev_profile, c) = MinSupport
              /\ \E j \in Injected \cap WindowPositions(c) : At(ct, j) # 0 )
            => /\ nPaired(profile, c) = MinSupport - 1
               /\ nUnpaired(profile, c) = MinSupport
               /\ ~IsDefined(auroc, c)

\* a window scored on 10 and 10 in the first construction and undefined in
\* the second, after one of its paired positions lost its reactivity
C2_Witness ==
    /\ Rerun
    /\ \E c \in FittingCenters :
          /\ nPaired(prev_profile, c) = MinSupport
          /\ nUnpaired(prev_profile, c) = MinSupport
          /\ IsDefined(prev_auroc, c)
          /\ \E j \in Injected \cap WindowPositions(c) : At(ct, j) # 0
          /\ ~IsDefined(auroc, c)

(* C11: a construction on a profile and a base-pair table of different     *)
(* lengths fails with InvalidParameter at once and yields no result.       *)
C11_LengthMismatchRejected ==
    (Required \subseteq sample.keys /\ Len(profile) # Len(ct) /\ pc # "start") =>
        /\ pc = "raised"
        /\ err = "InvalidParameter"
        /\ "auroc" \notin attrs
        /\ "auroc_median" \notin attrs

(* C12: insufficient support degrades locally.  auroc[i] depends only on   *)
(* the signal and labels inside [i-pad, i+pad]: a reactivity that goes     *)
(* missing outside the window leaves the entry as it was, a window without *)
(* support leaves every supported window defined, and the loop runs on to  *)
(* the last center without raising.                                        *)
C12_LocalDegradation ==
    /\ pc # "raised"
    /\ pc = "done" => \A c \in FittingCenters : Processed(c)
    /\ \A c \in FittingCenters :
          (Processed(c) /\ Supported(profile, c)) => IsDefined(auroc, c)
    /\ Rerun =>
          \A c \in FittingCenters :
              (Injected \cap WindowPositions(c) = {}) =>
                  At(auroc, c) = At(prev_auroc, c)

\* a second construction in which an early window lost its support and a
\* later window, which does not hold the masked position, kept its score
C12_Witness ==
    /\ Rerun
    /\ \E c, d \in FittingCenters :
          /\ c < d
          /\ IsDefined(prev_auroc, c)
          /\ ~IsDefined(auroc, c)
          /\ Injected \cap WindowPositions(d) = {}
          /\ IsDefined(auroc, d)
          /\ At(auroc, d) = At(prev_auroc, d)

\* the loop is about to run its body on center i
AtCenter == pc = "loop" /\ i \in Centers(Len(profile), pad)

(* C13: for pad >= 0 the window read at center i, from the profile and     *)
(* from the base-pair table alike, is the closed range [i-pad, i+pad]: it  *)
(* lies inside [0, N-1], has 2*pad+1 entries, an odd number, with i in the *)
(* middle; and self.window is 2*pad+1.                                     *)
C13_WindowIsClosedRange ==
    (ValidSample /\ pad >= 0) =>
        /\ Started => window = 2 * pad + 1
        /\ AtCenter =>
              LET win_profile == WindowOf(profile, pad, i)
                  win_ct      == WindowOf(ct, pad, i)
              IN  /\ 0 <= i - pad
                  /\ i + pad <= N - 1
                  /\ Len(win_profile) = 2 * pad + 1
                  /\ Len(win_ct) = 2 * pad + 1
                  /\ Len(win_profile) % 2 = 1
                  /\ \A k \in 1..(2 * pad + 1) :
                        /\ win_profile[k] = At(profile, i - pad + k - 1)
                        /\ win_ct[k] = At(ct, i - pad + k - 1)
                  /\ win_profile[pad + 1] = At(profile, i)

\* the loop at a center that is not the first, with room on both sides
C13_Witness ==
    /\ ValidSample
    /\ pad >= 1
    /\ AtCenter
    /\ i > pad
    /\ i + pad < N - 1
    /\ window = 2 * pad + 1
    /\ Len(WindowOf(profile, pad, i)) = window

(* C14: every defined entry of auroc is a score in the closed interval     *)
(* [0, 1], whatever the signal, the labels and the pad.                    *)
C14_ScoreInUnitInterval ==
    \A k \in DefinedAt(auroc) :
        /\ auroc[k][2] > 0
        /\ 0 <= auroc[k][1]
        /\ auroc[k][1] <= auroc[k][2]

\* a finished run whose output holds two different scores strictly between
\* 0 and 1
C14_Witness ==
    /\ pc = "done"
    /\ \E k, l \in DefinedAt(auroc) :
          /\ auroc[k] # auroc[l]
          /\ 0 < auroc[k][1] /\ auroc[k][1] < auroc[k][2]
          /\ 0 < auroc[l][1] /\ auroc[l][1] < auroc[l][2]

(* C15: whether auroc[i] is defined does not depend on signal[i] being     *)
(* missing: a center without a reactivity is scored exactly when the rest  *)
(* of its window holds at least 10 valid paired and 10 valid unpaired      *)
(* positions.                                                              *)
C15_MissingCenterStillScored ==
    ValidSample =>
        \A c \in FittingCenters :
            (Processed(c) /\ At(profile, c) = NaNLevel) =>
                (IsDefined(auroc, c) <=>
                    /\ nPaired(profile, c) >= MinSupport
                    /\ nUnpaired(profile, c) >= MinSupport)

\* a finished run that scored a center whose own reactivity is missing
C15_Witness ==
    /\ pc = "done"
    /\ ValidSample
    /\ \E c \in FittingCenters :
          /\ At(profile, c) = NaNLevel
          /\ c \notin ValidPositions(profile, c)
          /\ IsDefined(auroc, c)

(* C16: the windows can be evaluated in any order and give the array of    *)
(* the sequential loop: an evaluation writes the slot of its own center    *)
(* with the value the sequential loop stored there and no other slot.      *)
C16_AnyOrderSameResult ==
    /\ (run = 2 /\ pc = "scatter") =>
          /\ Len(auroc) = Len(prev_auroc)
          /\ \A c \in 0..(N - 1) :
                At(auroc, c) = IF c \in FittingCenters \ pending
                               THEN At(prev_auroc, c) ELSE NaN
    /\ (run = 2 /\ pc = "done") => auroc = prev_auroc

\* an evaluation out of order: a later center holds its score while an
\* earlier center, scored by the sequential loop, is still to come
C16_Witness ==
    /\ run = 2
    /\ pc = "scatter"
    /\ \E c \in pending, d \in FittingCenters \ pending :
          /\ c < d
          /\ IsDefined(prev_auroc, c)
          /\ IsDefined(auroc, d)
          /\ At(prev_auroc, c) # At(prev_auroc, d)

(* C17: the construction does not mutate its inputs: no step of it changes *)
(* the Norm_profile array, the ct array or anything else of the sample.    *)
C17_InputsUnchanged == [][sample' = sample]_vars

\* a finished run that read missing reactivities and stored a score
C17_Witness ==
    /\ pc = "done"
    /\ \E j \in 0..(N - 1) : At(profile, j) = NaNLevel
    /\ DefinedAt(auroc) # {}

(* C18: the result is computed in the constructor and immutable after it:  *)
(* once __init__ is done the object holds auroc, auroc_median, window and  *)
(* nt_length, and no plot_auroc call, whatever its region, changes them.   *)
C18_ResultImmutable ==
    /\ [](pc = "done" =>
            {"auroc", "auroc_median", "window", "nt_length"} \subseteq attrs)
    /\ [][pc = "done" =>
            /\ pc' = "done"
            /\ auroc' = auroc
            /\ auroc_median' = auroc_median
            /\ window' = window
            /\ nt_length' = nt_length
            /\ attrs' = attrs]_vars

\* a plot of a part of the sequence, drawn from an array that holds scores
C18_Witness ==
    /\ pc = "done"
    /\ plot # <<>>
    /\ plot.region[1] > 1
    /\ plot.region[2] < nt_length
    /\ Len(plot.fill) < Len(auroc)
    /\ DefinedAt(auroc) # {}
    /\ plot.baseline = auroc_median

(* C19: calculate_windows rejects every even window size with a ValueError *)
(* and leaves the data table as it was: no column is added, none changed,  *)
(* whatever the other arguments are.                                       *)
C19_EvenWindowRejected ==
    [][(pstatus = "idle" /\ call'.window % 2 = 0) =>
            /\ pstatus' = "ValueError"
            /\ table' = table]_vars

\* an even window asked of a column the table does not hold: the ValueError
\* comes first
C19_Witness ==
    /\ pstatus = "ValueError"
    /\ call.window = 2
    /\ call.column \notin DOMAIN table
    /\ call.new_name = <<>>
    /\ Len(table[<<"Norm_profile">>]) = MaxRows

\* v is the value of the method over the values win, none of them nan
IsValueOf(method, v, win) ==
    CASE method = "median" -> IsMedianOf(v, win)
      [] method = "mean" -> ~IsNaN(v) /\ FracMul(v, <<Len(win), 1>>) = FracSum(win)
      [] method = "minimum" ->
            /\ \E k \in 1..Len(win) : v = win[k]
            /\ \A k \in 1..Len(win) : ~FracLess(win[k], v)
      [] method = "maximum" ->
            /\ \E k \in 1..Len(win) : v = win[k]
            /\ \A k \in 1..Len(win) : ~FracLess(v, win[k])

\* the name of the column the last call wrote
Written ==
    IF call.new_name = <<>> THEN <<call.method, "_", call.window, "_nt">>
    ELSE call.new_name

(* C20: with the default minimum_points a call that returns writes a       *)
(* column as long as the table; at position p it holds the method's value  *)
(* of the window [p - window//2, p + window//2] of the source column when  *)
(* that window lies inside the data and holds no missing value, and it is  *)
(* missing at every other position.                                        *)
C20_CenteredCompleteWindows ==
    [][(pstatus' = "returned" /\ call'.minimum_points = <<>>) =>
        LET source == table[call'.column]
            new == table'[Written']
            half == call'.window \div 2
        IN  /\ Len(new) = Len(source)
            /\ \A p \in 0..(Len(source) - 1) :
                  IF /\ p - half >= 0
                     /\ p + half <= Len(source) - 1
                     /\ \A q \in (p - half)..(p + half) : ~IsNaN(At(source, q))
                  THEN IsValueOf(call'.method, At(new, p),
                                 [k \in 1..call'.window |->
                                     At(source, p - half + k - 1)])
                  ELSE IsNaN(At(new, p))]_vars

\* a window of 3 over 4 rows: the column is defined at one inner position
\* and missing at the other, whose window holds a missing value, and the
\* median written differs from the mean
C20_Witness ==
    /\ pstatus = "returned"
    /\ call.minimum_points = <<>>
    /\ call.window = 3
    /\ call.method = "median"
    /\ ~call.mask_na
    /\ Len(table[Written]) = 4
    /\ At(table[Written], 1) = <<1, 1>>
    /\ IsNaN(At(table[Written], 0))
    /\ IsNaN(At(table[Written], 2))
    /\ IsNaN(At(table[<<"Norm_profile">>], 3))
    /\ At(table[<<"Norm_profile">>], 2) = <<2, 1>>

(* C23: on a sample without "profile" or without "ct" the constructor      *)
(* fails with an AssertionError, and it does so with no attribute set on   *)
(* the object (sample, window, nt_length, auroc, auroc_median) and no plot *)
(* made.                                                                   *)
C23_MissingDataAsserts ==
    /\ (pc # "start" /\ ~(Required \subseteq sample.keys)) =>
          /\ pc = "raised"
          /\ err = "AssertionError"
    /\ err = "AssertionError" =>
          /\ attrs = {}
          /\ window = 0 /\ nt_length = 0
          /\ auroc = <<>> /\ IsNaN(auroc_median)
          /\ plot = <<>>

\* the sample holds a ct and no profile, and the constructor has run
C23_Witness ==
    /\ pc = "raised"
    /\ err = "AssertionError"
    /\ sample.keys = {"ct"}
    /\ run = 1

\* the valid unpaired and the valid paired positions of window c
UnpairedIn(c) == {j \in ValidPositions(profile, c) : At(ct, j) = 0}
PairedIn(c) == {j \in ValidPositions(profile, c) : At(ct, j) # 0}

\* the pairs of an unpaired and a paired position of window c in which the
\* unpaired one is the more reactive, and those in which the two tie
Wins(c) ==
    {q \in UnpairedIn(c) \X PairedIn(c) : At(profile, q[1]) > At(profile, q[2])}
Ties(c) ==
    {q \in UnpairedIn(c) \X PairedIn(c) : At(profile, q[1]) = At(profile, q[2])}

\* (wins + ties / 2) / (n_unpaired * n_paired)
MannWhitney(c) ==
    Rate(2 * Cardinality(Wins(c)) + Cardinality(Ties(c)),
         2 * Cardinality(UnpairedIn(c)) * Cardinality(PairedIn(c)))

(* C26: every defined auroc[i] is the rank statistic of its filtered        *)
(* window: the number of (unpaired, paired) pairs with the unpaired one    *)
(* more reactive, plus half the number of tied pairs, over                 *)
(* n_unpaired * n_paired.                                                  *)
C26_ScoreIsRankStatistic ==
    ValidSample =>
        \A c \in FittingCenters :
            (Processed(c) /\ IsDefined(auroc, c)) =>
                At(auroc, c) = MannWhitney(c)

\* a finished run with a window that holds a missing reactivity, wins, ties
\* and losses, and whose score is none of 0, 1/2 and 1
C26_Witness ==
    /\ pc = "done"
    /\ ValidSample
    /\ \E c \in FittingCenters :
          /\ IsDefined(auroc, c)
          /\ ValidPositions(profile, c) # WindowPositions(c)
          /\ Wins(c) # {}
          /\ Ties(c) # {}
          /\ Wins(c) \cup Ties(c) # UnpairedIn(c) \X PairedIn(c)
          /\ At(auroc, c) \notin {<<0, 1>>, Half, One}
          /\ At(auroc, c) = MannWhitney(c)

(* C27: with the two classes swapped and the signal unchanged the same     *)
(* positions of auroc are defined, and a score s has become 1 - s.         *)
C27_SwapComplementsScore ==
    (run = 2 /\ pc = "done") =>
        /\ profile = prev_profile
        /\ Len(auroc) = Len(prev_auroc)
        /\ \A c \in 0..(N - 1) :
              /\ IsDefined(auroc, c) <=> IsDefined(prev_auroc, c)
              /\ IsDefined(auroc, c) =>
                    At(auroc, c) = FracSub(One, At(prev_auroc, c))

\* a swapped run with a center undefined in both runs and a center whose
\* score is not 1/2 and whose window holds a missing reactivity
C27_Witness ==
    /\ run = 2
    /\ pc = "done"
    /\ \E c, d \in FittingCenters :
          /\ ~IsDefined(prev_auroc, c)
          /\ ~IsDefined(auroc, c)
          /\ IsDefined(prev_auroc, d)
          /\ ValidPositions(profile, d) # WindowPositions(d)
          /\ At(prev_auroc, d) \notin {<<0, 1>>, Half, One}
          /\ At(auroc, d) = FracSub(One, At(prev_auroc, d))

(* C28: definedness is monotone in missing data.  After any reactivities   *)
(* are replaced by nan no entry of auroc that was undefined is defined,    *)
(* and every entry whose window holds none of the replaced positions is    *)
(* as it was.                                                              *)
C28_MonotoneInMissing ==
    (run = 2 /\ pc = "done") =>
        /\ Len(auroc) = Len(prev_auroc)
        /\ \A c \in 0..(N - 1) :
              /\ IsDefined(auroc, c) => IsDefined(prev_auroc, c)
              /\ (Injected \cap WindowPositions(c) = {}) =>
                    At(auroc, c) = At(prev_auroc, c)

\* two reactivities replaced at once: one window lost its score, one window
\* holds a replaced position and kept a score, and one window holds none
\* and kept its score
C28_Witness ==
    /\ run = 2
    /\ pc = "done"
    /\ Cardinality(Injected) = 2
    /\ \E c, d, e \in FittingCenters :
          /\ IsDefined(prev_auroc, c) /\ ~IsDefined(auroc, c)
          /\ Injected \cap WindowPositions(d) # {}
          /\ IsDefined(auroc, d)
          /\ Injected \cap WindowPositions(e) = {}
          /\ IsDefined(auroc, e)
          /\ At(auroc, e) = At(prev_auroc, e)

(* C21: normalize called without norm_method and without profile_factors   *)
(* does what normalize(norm_method="boxplot") does: the same outcome, the  *)
(* same table, and the boxplot scaling factors returned.                   *)
C21_DefaultIsBoxplot ==
    [][(/\ call'.method = "normalize"
        /\ call'.norm_method = <<>>
        /\ call'.profile_factors = <<>>) =>
            \E empty \in NumpyEmpty :
                LET boxplot == normalize(table, <<"boxplot">>, <<>>, empty)
                IN  /\ pstatus' = boxplot.status
                    /\ table' = boxplot.table
                    /\ returned' = boxplot.returned]_vars

(* C22: normalize called with profile_factors returns, writes              *)
(* profile / factor of each nucleotide into Norm_profile, and returns the  *)
(* dictionary it was given, with an error column or without; and           *)
(* normalize_external, once the factors of the other profiles are          *)
(* computed, completes and returns them.                                   *)
C22_GivenFactorsUsed ==
    [][/\ (call'.method = "normalize" /\ call'.profile_factors # <<>>) =>
            /\ pstatus' = "returned"
            /\ returned' = call'.profile_factors[1]
            /\ table'[<<"Norm_profile">>] =
                  [k \in 1..Len(table[Metric]) |->
                      FracDiv(table[Metric][k],
                              call'.profile_factors[1][NormNt(SequenceOf(table)[k])])]
       /\ (/\ call'.method = "normalize_external"
           /\ call'.norm_method # <<>>
           /\ call'.norm_method[1] \in DOMAIN MethodsGroups) =>
            /\ pstatus' = "returned"
            /\ returned' = call'.profile_factors[1]]_vars

(* C24: get_distance(i, j, atom) returns the sentinel distance 1000, and   *)
(* raises nothing, whenever i or j is no residue of the structure, before  *)
(* get_distance_matrix(atom) has cached the matrix of the atom and after.  *)
C24_AbsentResidueIsSentinel ==
    (/\ pstatus # "idle"
     /\ call.method = "get_distance"
     /\ (~is_valid_idx(pdb, call.i) \/ ~is_valid_idx(pdb, call.j))) =>
        /\ pstatus = "returned"
        /\ returned = SentinelDistance

\* the call of get_nt_ticks has returned
TicksReturned == call.method = "get_nt_ticks" /\ pstatus = "returned"

\* the number of characters among the first c columns that are no gap
Ungapped(c) == Cardinality({k \in 1..c : call.sequence[k] # "-"})

\* p is a position to be labelled
Labelled(p) ==
    /\ p \in 1..Ungapped(Len(call.sequence))
    /\ call.region[1] <= p /\ p <= call.region[2]
    /\ p = call.region[1] \/ \E q \in (0 - p)..p : q * call.gap = p

\* the alignment column of the p-th character that is no gap
ColumnOf(p) ==
    CHOOSE c \in 1..Len(call.sequence) :
        call.sequence[c] # "-" /\ Ungapped(c) = p

(* C25: get_nt_ticks returns ticks and labels of equal length; every       *)
(* ungapped position p with start <= p <= end and (p % gap == 0 or         *)
(* p == start) is a label exactly once, paired with the 1-based column of  *)
(* the p-th character that is no gap; no gap column is a tick and no other *)
(* position a label.                                                       *)
C25_TicksAtLabelledPositions ==
    TicksReturned =>
        LET ticks == returned[1]
            labels == returned[2]
        IN  /\ Len(ticks) = Len(labels)
            /\ \A p \in 1..Len(call.sequence) :
                  Labelled(p) =>
                      /\ Cardinality({k \in 1..Len(labels) : labels[k] = p}) = 1
                      /\ \A k \in 1..Len(labels) :
                            labels[k] = p => ticks[k] = ColumnOf(p)
            /\ \A k \in 1..Len(ticks) :
                  /\ ticks[k] \in 1..Len(call.sequence)
                  /\ call.sequence[ticks[k]] # "-"
                  /\ Labelled(labels[k])

\* a row with a gap before its last character, labelled at start, which
\* gap does not divide, and at a multiple of gap
C25_Witness ==
    /\ TicksReturned
    /\ call.sequence = <<"G", "-", "G", "G">>
    /\ call.region = <<1, 3>>
    /\ call.gap = 2
    /\ returned = <<<<1, 3>>, <<1, 2>>>>

====
